---- MODULE Spec2Model ----
(***************************************************************************)
(* A model of the Function Health exporter: its client                      *)
(* (FunctionHealthClient: login, token refresh, retry/backoff, the          *)
(* rate-limited request gateway, the sequential data aggregator and the     *)
(* export writer), its configuration store (ConfigManager) and the export   *)
(* and config commands of its command-line interface.                       *)
(*                                                                          *)
(* Time is counted in whole seconds: the code divides the millisecond       *)
(* difference of two Date.now() readings by 1000 and compares the age with  *)
(* expiresIn - tokenRefreshBuffer, both in seconds.  Date.now() is an input *)
(* of the program: each reading is the previous one plus a chosen advance.  *)
(* The caller invokes login and fetchAllData when it chooses to; within a   *)
(* run the calls are answered within the same second unless the             *)
(* environment deviates (see the remote service below).                     *)
(***************************************************************************)
EXTENDS Integers, Sequences, FiniteSets, TLC

VARIABLES
    retry,      \* the loop state of one retryRequest call (SpecRetry)
    pc,         \* position of the client: start / loginFailed / ready / catalog / details /
                \* returned / raised (Spec, SpecCli), export (SpecExport), shell (SpecCommands)
    config,     \* this.config
    tokens,     \* this.tokens (NoTokens models null)
    now,        \* the last Date.now() reading, in seconds
    userData,   \* the aggregate fetchAllData builds
    task,       \* the task fetchAllData is at: its index in the catalog and how far it is
    detail,     \* the loop state of fetchIndividualBiomarkers
    env,        \* the remote service: its default behaviour and the deviations left
    files,      \* the output directory: the content of each file in it, by name
    home,       \* ~/.function-health-cli: the config file and the credentials file
    exitCode,   \* the exit status of the command's process (<<>>: it has not ended)
    hist        \* what happened so far in the run (read by the properties only)

vars == <<retry, pc, config, tokens, now, userData, task, detail, env, files, home, exitCode, hist>>

clientVars == <<pc, config, tokens, now, userData, task, detail, env, files, home, exitCode, hist>>

(***************************************************************************)
(* Bounds of the model.                                                     *)
(***************************************************************************)
MaxAttempts == 3

MaxTime == 2

MaxDeviations == 1

MaxBiomarkers == 2

MaxExports == 2

MaxCommands == 3

(***************************************************************************)
(* Errors.  A JavaScript error object is a record of its class name, its    *)
(* message and the message of the error it wraps ("" when it wraps none).   *)
(***************************************************************************)
MkError(name, message) == [name |-> name, message |-> message, cause |-> ""]

NoError == MkError("", "")

TransportErrors == {MkError("TypeError", "fetch failed"), MkError("Error", "ECONNRESET")}

AllRetryFailedError == MkError("Error", "All retry attempts failed")

(***************************************************************************)
(* HTTP.  One attempt of a request function either throws a transport error *)
(* or yields a response (status, body).                                     *)
(***************************************************************************)
\* A parsed JSON body: null, an object (its biologicalSex and its token fields, when
\* it has them) or a list.  "unparsable" is a body response.json() rejects.
Undefined == 0

NaN == -1

NoAuth == [idToken |-> Undefined, refreshToken |-> Undefined, expiresIn |-> NaN,
           access_token |-> Undefined, expires_in |-> NaN]

Unparsable == [t |-> "unparsable", items |-> <<>>, sex |-> "", text |-> "", auth |-> NoAuth]

JNull == [t |-> "null", items |-> <<>>, sex |-> "", text |-> "", auth |-> NoAuth]

\* An object: sex is its biologicalSex, text the value of its description fields
\* ("": it has none).
JObject(sex, text) == [t |-> "obj", items |-> <<>>, sex |-> sex, text |-> text, auth |-> NoAuth]

JAuth(auth) == [t |-> "obj", items |-> <<>>, sex |-> "", text |-> "", auth |-> auth]

JList(items) == [t |-> "list", items |-> items, sex |-> "", text |-> "", auth |-> NoAuth]

\* Array.isArray(value)
IsArray(v) == v.t = "list"

\* parseInt of the decimal string of n, or of undefined
ParseInt(n) == IF n = Undefined \/ n = NaN THEN NaN ELSE n

NoBody == JNull

Throws(e) == [throws |-> TRUE, err |-> e, status |-> 0, body |-> NoBody]

Responds(status, body) == [throws |-> FALSE, err |-> NoError, status |-> status, body |-> body]

NoOutcome == Responds(0, NoBody)

\* Response.ok
ResponseOk(resp) == resp.status >= 200 /\ resp.status <= 299

\* Math.pow(2, i)
RECURSIVE Pow2(_)
Pow2(i) == IF i <= 0 THEN 1 ELSE 2 * Pow2(i - 1)

(***************************************************************************)
(* retryRequest.  Its loop state: i, the attempts not yet made (outs: the   *)
(* outcome of each invocation of requestFn, in order), the number of        *)
(* invocations made, and the log of what it did: a "backoff" event for      *)
(* each delay and a "call" event for each invocation of requestFn.          *)
(***************************************************************************)
BackoffEvent(ms) == [ev |-> "backoff", ms |-> ms]

CallEvent == [ev |-> "call", ms |-> 0]

RetryStart(outs, attempts, retryDelay) ==
    [i |-> 0, attempts |-> attempts, retryDelay |-> retryDelay, outs |-> outs,
     calls |-> 0, log |-> <<>>, status |-> "running",
     value |-> NoOutcome, error |-> NoError]

\* One pass through the loop of retryRequest, or the throw after the loop.
retryStepNoRethrow(s) ==
    IF s.i < s.attempts
    THEN LET waited == IF s.i > 0
                       THEN Append(s.log, BackoffEvent(s.retryDelay * Pow2(s.i)))
                       ELSE s.log
             out == s.outs[s.calls + 1]
             called == [s EXCEPT !.log = Append(waited, CallEvent), !.calls = s.calls + 1]
         IN IF ~out.throws
            THEN [called EXCEPT !.status = "returned", !.value = out]
            ELSE [called EXCEPT !.i = s.i + 1]
    ELSE [s EXCEPT !.status = "threw", !.error = AllRetryFailedError]

retryStepBackoffFromBase(s) ==
    IF s.i < s.attempts
    THEN LET waited == IF s.i > 0
                       THEN Append(s.log, BackoffEvent(s.retryDelay * Pow2(s.i - 1)))
                       ELSE s.log
             out == s.outs[s.calls + 1]
             called == [s EXCEPT !.log = Append(waited, CallEvent), !.calls = s.calls + 1]
         IN IF ~out.throws
            THEN [called EXCEPT !.status = "returned", !.value = out]
            ELSE IF s.i = s.attempts - 1
                 THEN [called EXCEPT !.status = "threw", !.error = out.err]
                 ELSE [called EXCEPT !.i = s.i + 1]
    ELSE [s EXCEPT !.status = "threw", !.error = AllRetryFailedError]

retryStepIgnoresSuccess(s) ==
    IF s.i < s.attempts
    THEN LET waited == IF s.i > 0
                       THEN Append(s.log, BackoffEvent(s.retryDelay * Pow2(s.i)))
                       ELSE s.log
             out == s.outs[s.calls + 1]
             called == [s EXCEPT !.log = Append(waited, CallEvent), !.calls = s.calls + 1]
         IN IF ~out.throws /\ s.i = s.attempts - 1
            THEN [called EXCEPT !.status = "returned", !.value = out]
            ELSE IF s.i = s.attempts - 1
                 THEN [called EXCEPT !.status = "threw", !.error = out.err]
                 ELSE [called EXCEPT !.i = s.i + 1]
    ELSE [s EXCEPT !.status = "threw", !.error = AllRetryFailedError]

retryStepFallsThroughQuietly(s) ==
    IF s.i < s.attempts
    THEN LET waited == IF s.i > 0
                       THEN Append(s.log, BackoffEvent(s.retryDelay * Pow2(s.i)))
                       ELSE s.log
             out == s.outs[s.calls + 1]
             called == [s EXCEPT !.log = Append(waited, CallEvent), !.calls = s.calls + 1]
         IN IF ~out.throws
            THEN [called EXCEPT !.status = "returned", !.value = out]
            ELSE IF s.i = s.attempts - 1
                 THEN [called EXCEPT !.status = "threw", !.error = out.err]
                 ELSE [called EXCEPT !.i = s.i + 1]
    ELSE [s EXCEPT !.status = "returned", !.value = NoOutcome]

retryStepRetriesOnStatus(s) ==
    IF s.i < s.attempts
    THEN LET waited == IF s.i > 0
                       THEN Append(s.log, BackoffEvent(s.retryDelay * Pow2(s.i)))
                       ELSE s.log
             out == s.outs[s.calls + 1]
             called == [s EXCEPT !.log = Append(waited, CallEvent), !.calls = s.calls + 1]
         IN IF ~out.throws /\ (ResponseOk(out) \/ s.i = s.attempts - 1)
            THEN [called EXCEPT !.status = "returned", !.value = out]
            ELSE IF s.i = s.attempts - 1
                 THEN [called EXCEPT !.status = "threw", !.error = out.err]
                 ELSE [called EXCEPT !.i = s.i + 1]
    ELSE [s EXCEPT !.status = "threw", !.error = AllRetryFailedError]

retryStep(s) ==
    IF s.i < s.attempts
    THEN LET waited == IF s.i > 0
                       THEN Append(s.log, BackoffEvent(s.retryDelay * Pow2(s.i)))
                       ELSE s.log
             out == s.outs[s.calls + 1]
             called == [s EXCEPT !.log = Append(waited, CallEvent), !.calls = s.calls + 1]
         IN IF ~out.throws
            THEN [called EXCEPT !.status = "returned", !.value = out]
            ELSE IF s.i = s.attempts - 1
                 THEN [called EXCEPT !.status = "threw", !.error = out.err]
                 ELSE [called EXCEPT !.i = s.i + 1]
    ELSE [s EXCEPT !.status = "threw", !.error = AllRetryFailedError]

RECURSIVE retryRun(_)
retryRun(s) == IF s.status = "running" THEN retryRun(retryStep(s)) ELSE s

\* retryRequest(requestFn, attempts), requestFn's k-th invocation ending as outs[k].
retryRequest(outs, attempts, retryDelay) == retryRun(RetryStart(outs, attempts, retryDelay))

(***************************************************************************)
(* Configuration (Config, DEFAULT_CONFIG) and the session (AuthTokens).     *)
(***************************************************************************)
DefaultRetryDelay == 1000

DefaultRateLimit == 500

\* The configurations the client is run with.  tokenRefreshBuffer and the
\* expiresIn values below are scaled to the clock's range.  The last one is
\* what a custom config file without a retryAttempts key gives (cli.ts
\* loadConfig takes the parsed file as it is): i < undefined is false, as
\* i < 0 is.
Configs ==
    { [retryAttempts |-> 2, retryDelay |-> DefaultRetryDelay, rateLimit |-> DefaultRateLimit,
       tokenRefreshBuffer |-> 1, maxIndividualBiomarkers |-> n] : n \in {0, 1} }
    \cup { [retryAttempts |-> Undefined, retryDelay |-> DefaultRetryDelay,
            rateLimit |-> DefaultRateLimit, tokenRefreshBuffer |-> 1,
            maxIndividualBiomarkers |-> 0] }

ExpiresInChoices == {2}

NoTokens == [present |-> FALSE, idToken |-> Undefined, refreshToken |-> Undefined,
             expiresIn |-> 0, localId |-> "", email |-> "", loginTime |-> 0]

LoginIdToken == 1

LoginRefreshToken == 100

(***************************************************************************)
(* The log of one task: what the gateway did, in order.                     *)
(***************************************************************************)
\* A request's target: the path, and the identifier appended to it (0: none).
Url(path, id) == <<path, id>>

Event(ev, ms, url, token) == [ev |-> ev, ms |-> ms, url |-> url, token |-> token]

\* retryRequest's log with each invocation of requestFn replaced by what requestFn does.
RECURSIVE ExpandLog(_, _)
ExpandLog(log, callEvents) ==
    IF log = <<>> THEN <<>>
    ELSE (IF Head(log).ev = "call" THEN callEvents
          ELSE <<Event("backoff", Head(log).ms, Url("", 0), 0)>>) \o ExpandLog(Tail(log), callEvents)

\* The freshness check a gateway request starts with (line 263).
CheckEvent == Event("check", 0, Url("", 0), 0)

\* The bearer token of requestHeaders (lines 270-273), built once per request.
requestHeadersFromLogin(tk) == LoginIdToken

requestHeaders(tk) == tk.idToken

\* What one invocation of makeRequest's requestFn does (lines 278-286): the
\* rate-limit delay, then the HTTP call.
requestFnWithoutDelay(cfg, url, bearer) == <<Event("fetch", 0, url, bearer)>>

requestFn(cfg, url, bearer) ==
    <<Event("delay", cfg.rateLimit, Url("", 0), 0), Event("fetch", 0, url, bearer)>>

(***************************************************************************)
(* refreshTokenIfNeeded(): tk is this.tokens, t the Date.now() reading of   *)
(* line 189, t2 the one of line 216, outs the outcomes of the attempts of   *)
(* the refresh call.                                                        *)
(***************************************************************************)
RefreshUrl == Url("securetoken.googleapis.com/v1/token", 0)

NotAuthenticatedError == MkError("Error", "Not authenticated - call login() first")

TokenRefreshFailedError == MkError("Error", "Token refresh failed")

JsonSyntaxError == MkError("SyntaxError", "Unexpected token")

NeedsRefreshAtThreshold(tk, cfg, t) ==
    /\ tk.expiresIn # NaN
    /\ t - tk.loginTime >= tk.expiresIn - cfg.tokenRefreshBuffer

NeedsRefreshNever(tk, cfg, t) == FALSE

NeedsRefresh(tk, cfg, t) ==
    /\ tk.expiresIn # NaN
    /\ t - tk.loginTime > tk.expiresIn - cfg.tokenRefreshBuffer

RefreshResult(threw, error, tk, t, log, needed) ==
    [threw |-> threw, error |-> error, tokens |-> tk, now |-> t, log |-> log, needed |-> needed]

refreshTokenIfNeededKeepsExpiry(tk, cfg, t, t2, outs) ==
    IF ~tk.present
    THEN RefreshResult(TRUE, NotAuthenticatedError, tk, t, <<>>, FALSE)
    ELSE IF NeedsRefresh(tk, cfg, t)
    THEN LET rr == retryRequest(outs, cfg.retryAttempts, cfg.retryDelay)
             log == ExpandLog(rr.log, <<Event("fetch", 0, RefreshUrl, tk.refreshToken)>>)
         IN IF rr.status = "threw"
            THEN RefreshResult(TRUE, rr.error, tk, t, log, TRUE)
            ELSE IF ResponseOk(rr.value)
            THEN IF rr.value.body.t = "unparsable"
                 THEN RefreshResult(TRUE, JsonSyntaxError, tk, t, log, TRUE)
                 ELSE RefreshResult(FALSE, NoError,
                          [tk EXCEPT !.idToken = rr.value.body.auth.access_token,
                                     !.loginTime = t2],
                          t2, log, TRUE)
            ELSE RefreshResult(TRUE, TokenRefreshFailedError, tk, t, log, TRUE)
    ELSE RefreshResult(FALSE, NoError, tk, t, <<>>, FALSE)

refreshTokenIfNeeded(tk, cfg, t, t2, outs) ==
    IF ~tk.present
    THEN RefreshResult(TRUE, NotAuthenticatedError, tk, t, <<>>, FALSE)
    ELSE IF NeedsRefresh(tk, cfg, t)
    THEN LET rr == retryRequest(outs, cfg.retryAttempts, cfg.retryDelay)
             log == ExpandLog(rr.log, <<Event("fetch", 0, RefreshUrl, tk.refreshToken)>>)
         IN IF rr.status = "threw"
            THEN RefreshResult(TRUE, rr.error, tk, t, log, TRUE)
            ELSE IF ResponseOk(rr.value)
            THEN IF rr.value.body.t = "unparsable"
                 THEN RefreshResult(TRUE, JsonSyntaxError, tk, t, log, TRUE)
                 ELSE RefreshResult(FALSE, NoError,
                          [tk EXCEPT !.idToken = rr.value.body.auth.access_token,
                                     !.expiresIn = ParseInt(rr.value.body.auth.expires_in),
                                     !.loginTime = t2],
                          t2, log, TRUE)
            ELSE RefreshResult(TRUE, TokenRefreshFailedError, tk, t, log, TRUE)
    ELSE RefreshResult(FALSE, NoError, tk, t, <<>>, FALSE)

(***************************************************************************)
(* makeRequest(endpoint).  io holds the inputs of the call: dt, the time    *)
(* since the last clock reading; lat, the time the refresh call takes;      *)
(* refreshOuts and outs, the outcomes of the attempts of the refresh call   *)
(* and of the data call.  The result says whether makeRequest raised, the   *)
(* value it returned otherwise, the session and the clock after it, and,    *)
(* for the properties, the response status it saw (0: none) and the error   *)
(* its own catch clause swallowed.                                          *)
(***************************************************************************)
AuthExpiredError == MkError("Error", "Authentication expired. Please log in again.")

RateLimitedError == MkError("Error", "Rate limit exceeded. Please try again later.")

ServerError == MkError("Error", "Server error")

RequestResult(raised, error, value, rf, log, status, swallowed, refreshFailed) ==
    [raised |-> raised, error |-> error, value |-> value, tokens |-> rf.tokens,
     now |-> rf.now, log |-> log, status |-> status, swallowed |-> swallowed,
     refreshNeeded |-> rf.needed, refreshFailed |-> refreshFailed]

\* The statuses for which the code throws inside its try block (lines 294-306).
StatusError(status) ==
    IF status = 401 THEN AuthExpiredError
    ELSE IF status = 429 THEN RateLimitedError
    ELSE IF status >= 500 THEN ServerError
    ELSE NoError

makeRequestStatusErrorsEscape(tk, cfg, t, url, io) ==
    LET rf == refreshTokenIfNeeded(tk, cfg, t + io.dt, t + io.dt + io.lat, io.refreshOuts)
    IN IF rf.threw
       THEN RequestResult(TRUE, rf.error, JNull, rf, <<CheckEvent>> \o rf.log, 0, NoError, rf.needed)
       ELSE LET rr == retryRequest(io.outs, cfg.retryAttempts, cfg.retryDelay)
                log == <<CheckEvent>> \o rf.log
                           \o ExpandLog(rr.log, requestFn(cfg, url, requestHeaders(rf.tokens)))
            IN IF rr.status = "threw"
               THEN RequestResult(FALSE, NoError, JNull, rf, log, 0, rr.error, FALSE)
               ELSE IF ~ResponseOk(rr.value)
               THEN IF StatusError(rr.value.status) # NoError
                    THEN RequestResult(TRUE, StatusError(rr.value.status), JNull, rf, log,
                                       rr.value.status, NoError, FALSE)
                    ELSE RequestResult(FALSE, NoError, JNull, rf, log, rr.value.status, NoError, FALSE)
               ELSE IF rr.value.body.t = "unparsable"
               THEN RequestResult(FALSE, NoError, JNull, rf, log, rr.value.status, JsonSyntaxError, FALSE)
               ELSE RequestResult(FALSE, NoError, rr.value.body, rf, log, rr.value.status, NoError, FALSE)

makeRequestRefreshInsideTry(tk, cfg, t, url, io) ==
    LET rf == refreshTokenIfNeeded(tk, cfg, t + io.dt, t + io.dt + io.lat, io.refreshOuts)
    IN IF rf.threw
       THEN RequestResult(FALSE, NoError, JNull, rf, <<CheckEvent>> \o rf.log, 0, rf.error, rf.needed)
       ELSE LET rr == retryRequest(io.outs, cfg.retryAttempts, cfg.retryDelay)
                log == <<CheckEvent>> \o rf.log
                           \o ExpandLog(rr.log, requestFn(cfg, url, requestHeaders(rf.tokens)))
            IN IF rr.status = "threw"
               THEN RequestResult(FALSE, NoError, JNull, rf, log, 0, rr.error, FALSE)
               ELSE IF ~ResponseOk(rr.value)
               THEN RequestResult(FALSE, NoError, JNull, rf, log, rr.value.status,
                                  StatusError(rr.value.status), FALSE)
               ELSE IF rr.value.body.t = "unparsable"
               THEN RequestResult(FALSE, NoError, JNull, rf, log, rr.value.status, JsonSyntaxError, FALSE)
               ELSE RequestResult(FALSE, NoError, rr.value.body, rf, log, rr.value.status, NoError, FALSE)

makeRequest(tk, cfg, t, url, io) ==
    LET rf == refreshTokenIfNeeded(tk, cfg, t + io.dt, t + io.dt + io.lat, io.refreshOuts)
    IN IF rf.threw
       THEN \* line 263 is outside the try block: the error propagates
            RequestResult(TRUE, rf.error, JNull, rf, <<CheckEvent>> \o rf.log, 0, NoError, rf.needed)
       ELSE LET rr == retryRequest(io.outs, cfg.retryAttempts, cfg.retryDelay)
                log == <<CheckEvent>> \o rf.log
                           \o ExpandLog(rr.log, requestFn(cfg, url, requestHeaders(rf.tokens)))
            IN IF rr.status = "threw"
               THEN \* caught at line 316
                    RequestResult(FALSE, NoError, JNull, rf, log, 0, rr.error, FALSE)
               ELSE IF ~ResponseOk(rr.value)
               THEN \* lines 294-306 throw inside the try block; line 316 catches
                    RequestResult(FALSE, NoError, JNull, rf, log, rr.value.status,
                                  StatusError(rr.value.status), FALSE)
               ELSE IF rr.value.body.t = "unparsable"
               THEN \* response.json() throws; line 316 catches
                    RequestResult(FALSE, NoError, JNull, rf, log, rr.value.status, JsonSyntaxError, FALSE)
               ELSE RequestResult(FALSE, NoError, rr.value.body, rf, log, rr.value.status, NoError, FALSE)

(***************************************************************************)
(* The endpoint wrappers (fetchUserProfile ... fetchBiomarkerDetails).  A   *)
(* wrapper's kind is what it does with makeRequest's result.                *)
(***************************************************************************)
EmptyList == JList(<<>>)

Wrap(kind, result) ==
    IF kind = "list" THEN (IF IsArray(result) THEN result ELSE EmptyList)
    ELSE IF kind = "profile" THEN (IF result.t = "null" THEN JNull ELSE result)
    ELSE result

(***************************************************************************)
(* The catalog of fetchAllData: its sections and their tasks, in            *)
(* declaration order.  kind names the wrapper: "profile" (fetchUserProfile),*)
(* "scalar" (makeRequest's result as it is), "list" (Array.isArray or []),  *)
(* "bmi" (fetchBMI: fetchResults, then the BMI request) and "requisitions"  *)
(* (fetchRequisitions: two requests, concatenated).                         *)
(***************************************************************************)
Task(name, kind, path) == [name |-> name, kind |-> kind, path |-> path]

sections ==
    << [name |-> "User Profile Data",
        tasks |-> << Task("profile", "profile", "/user"),
                     Task("settings", "scalar", "/user/settings"),
                     Task("inviteCode", "scalar", "/user/invite-code"),
                     Task("cards", "list", "/user/cards"),
                     Task("codes", "list", "/user/codes") >>],
       [name |-> "Health Data",
        tasks |-> << Task("results", "list", "/results"),
                     Task("biomarkers", "list", "/biomarkers"),
                     Task("categories", "list", "/categories"),
                     Task("biomarkerDetails", "list", "/biomarker-details") >>],
       [name |-> "Reports & Analysis",
        tasks |-> << Task("reports", "scalar", "/results-report"),
                     Task("recommendations", "list", "/recommendations"),
                     Task("biologicalAge", "scalar", "/biological-calculations/biological-age"),
                     Task("bmi", "bmi", "/biological-calculations/bmi"),
                     Task("myStory", "scalar", "/my-function-story") >>],
       [name |-> "User Interactions",
        tasks |-> << Task("notes", "list", "/notes"),
                     Task("notifications", "list", "/notifications") >>],
       [name |-> "Lab & Scheduling",
        tasks |-> << Task("requisitions", "requisitions", "/requisitions"),
                     Task("pendingSchedules", "list", "/pending-schedules"),
                     Task("smartAddons", "list", "/smart-addons") >> ] >>

\* The tasks in the order the two nested loops of fetchAllData visit them.
RECURSIVE FlattenReversed(_)
FlattenReversed(ss) == IF ss = <<>> THEN <<>> ELSE FlattenReversed(Tail(ss)) \o Head(ss).tasks

RECURSIVE Flatten(_)
Flatten(ss) == IF ss = <<>> THEN <<>> ELSE Head(ss).tasks \o Flatten(Tail(ss))

Catalog == Flatten(sections)

TaskNames == {Catalog[k].name : k \in 1..Len(Catalog)}

\* The keys the UserData interface declares as lists, and the others (T | null).
ListKeys == {"results", "biomarkers", "categories", "recommendations", "reports", "notes",
             "notifications", "cards", "codes", "requisitions", "pendingSchedules",
             "smartAddons", "biomarkerDetails", "individualBiomarkers"}

ScalarKeys == {"profile", "settings", "biologicalAge", "bmi", "inviteCode", "myStory"}

\* The object literal fetchAllData starts from.
InitialUserData == [k \in ListKeys \cup ScalarKeys |-> IF k \in ListKeys THEN EmptyList ELSE JNull]

\* The empty value the UserData interface declares for a key.
DeclaredEmpty(key) == IF key \in ListKeys THEN EmptyList ELSE JNull

\* (userData as Record<string, unknown>)[key] = value
SetKeyDropsOthers(data, key, value) == [k \in {key} |-> value]

SetKey(data, key, value) == [k \in DOMAIN data \cup {key} |-> IF k = key THEN value ELSE data[k]]

(***************************************************************************)
(* login(email, password): outs are the outcomes of the attempts of the     *)
(* login call, t the Date.now() reading of line 171.                        *)
(***************************************************************************)
LoginFailedError == MkError("Error", "Login failed")

InvalidLoginResponseError == MkError("Error", "Invalid login response - missing authentication tokens")

LoginUrl == Url("/login", 0)

\* log: the waits and the HTTP calls of the login call, in order.
LoginResult(threw, error, tk, log) == [threw |-> threw, error |-> error, tokens |-> tk, log |-> log]

loginAcceptsMissingRefreshToken(tk, cfg, t, outs) ==
    LET rr == retryRequest(outs, cfg.retryAttempts, cfg.retryDelay)
        log == ExpandLog(rr.log, <<Event("fetch", 0, LoginUrl, 0)>>)
    IN IF rr.status = "threw" THEN LoginResult(TRUE, rr.error, tk, log)
       ELSE IF ~ResponseOk(rr.value) THEN LoginResult(TRUE, LoginFailedError, tk, log)
       ELSE IF rr.value.body.t = "unparsable" THEN LoginResult(TRUE, JsonSyntaxError, tk, log)
       ELSE IF rr.value.body.auth.idToken = Undefined
       THEN LoginResult(TRUE, InvalidLoginResponseError, tk, log)
       ELSE LoginResult(FALSE, NoError,
                [present |-> TRUE,
                 idToken |-> rr.value.body.auth.idToken,
                 refreshToken |-> rr.value.body.auth.refreshToken,
                 expiresIn |-> ParseInt(rr.value.body.auth.expiresIn),
                 localId |-> "u1", email |-> "a@b.com", loginTime |-> t], log)

login(tk, cfg, t, outs) ==
    LET rr == retryRequest(outs, cfg.retryAttempts, cfg.retryDelay)
        log == ExpandLog(rr.log, <<Event("fetch", 0, LoginUrl, 0)>>)
    IN IF rr.status = "threw" THEN LoginResult(TRUE, rr.error, tk, log)
       ELSE IF ~ResponseOk(rr.value) THEN LoginResult(TRUE, LoginFailedError, tk, log)
       ELSE IF rr.value.body.t = "unparsable" THEN LoginResult(TRUE, JsonSyntaxError, tk, log)
       ELSE IF rr.value.body.auth.idToken = Undefined \/ rr.value.body.auth.refreshToken = Undefined
       THEN LoginResult(TRUE, InvalidLoginResponseError, tk, log)
       ELSE LoginResult(FALSE, NoError,
                [present |-> TRUE,
                 idToken |-> rr.value.body.auth.idToken,
                 refreshToken |-> rr.value.body.auth.refreshToken,
                 expiresIn |-> ParseInt(rr.value.body.auth.expiresIn),
                 localId |-> "u1", email |-> "a@b.com", loginTime |-> t], log)

(***************************************************************************)
(* fetchIndividualBiomarkers: the sex filter and the choice of the          *)
(* sexDetails identifier of one biomarker (0: none found).                  *)
(***************************************************************************)
\* String.prototype.toLowerCase on the strings a profile carries
ToLowerCase(str) ==
    IF str \in {"Male", "MALE", "male"} THEN "male"
    ELSE IF str \in {"Female", "FEMALE", "female"} THEN "female"
    ELSE IF str = "All" THEN "all"
    ELSE str

SexFilter(userSex) ==
    IF ToLowerCase(userSex) = "male" THEN "Male"
    ELSE IF ToLowerCase(userSex) = "female" THEN "Female"
    ELSE "All"

\* Array.prototype.find(sd => sd.sex === sex): the first match, or none
RECURSIVE FindSex(_, _)
FindSex(sexDetails, sex) ==
    IF sexDetails = <<>> THEN Undefined
    ELSE IF Head(sexDetails).sex = sex THEN Head(sexDetails).id
    ELSE FindSex(Tail(sexDetails), sex)

SexDetailsIdPrefersAll(biomarker, sexFilter) ==
    IF FindSex(biomarker.sexDetails, "All") # Undefined
    THEN FindSex(biomarker.sexDetails, "All")
    ELSE FindSex(biomarker.sexDetails, sexFilter)

SexDetailsId(biomarker, sexFilter) ==
    IF FindSex(biomarker.sexDetails, sexFilter) # Undefined
    THEN FindSex(biomarker.sexDetails, sexFilter)
    ELSE FindSex(biomarker.sexDetails, "All")

\* An IndividualBiomarkerData record; text stands for its twelve description
\* fields, which the code all computes as String(data.<field> || "").
DetailRecord(biomarker, text, sexFilter, fullData) ==
    [id |-> biomarker.id, text |-> text, sexFilter |-> ToLowerCase(sexFilter), fullData |-> fullData]

EmptyDetailRecord(biomarker, sexFilter) == DetailRecord(biomarker, "", sexFilter, JNull)

\* userData.profile?.biologicalSex || "all"
UserSex(profile) == IF profile.sex = "" THEN "all" ELSE profile.sex

\* The biomarkers the detail phase processes (lines 685-688).
LimitedBiomarkersIgnoresLimit(biomarkers, max) == biomarkers

LimitedBiomarkers(biomarkers, max) ==
    IF max > 0
    THEN SubSeq(biomarkers, 1, IF max < Len(biomarkers) THEN max ELSE Len(biomarkers))
    ELSE biomarkers

(***************************************************************************)
(* exportData(userData, outputDir).  The directory is a function from file  *)
(* names to contents; a content is what JSON.stringify was given.  The      *)
(* values written were parsed from JSON, so serialising them loses nothing; *)
(* an undefined email (no session) is a key JSON.stringify leaves out, "".  *)
(***************************************************************************)
\* An object without keys.
NoUserData == [k \in {} |-> JNull]

EmptyDir == [f \in {} |-> JNull]

JUndefined == [t |-> "undefined", items |-> <<>>, sex |-> "", text |-> "", auth |-> NoAuth]

CompleteFile == "complete-function-health-data.json"

\* path.join(outputDir, `${section.name}.json`)
SectionFile(name) == name \o ".json"

Section(name, key) == [name |-> name, key |-> key]

\* The sections array of exportData (lines 743-763).
exportSections ==
    << Section("profile", "profile"), Section("settings", "settings"),
       Section("health-results", "results"), Section("biomarkers", "biomarkers"),
       Section("categories", "categories"), Section("recommendations", "recommendations"),
       Section("reports", "reports"), Section("biological-age", "biologicalAge"),
       Section("bmi", "bmi"), Section("notes", "notes"),
       Section("notifications", "notifications"), Section("cards", "cards"),
       Section("invite-codes", "codes"), Section("lab-requisitions", "requisitions"),
       Section("pending-schedules", "pendingSchedules"), Section("smart-addons", "smartAddons"),
       Section("my-story", "myStory"), Section("biomarker-details", "biomarkerDetails"),
       Section("individual-biomarkers", "individualBiomarkers") >>

\* userData.<key>: undefined when the object has no such key
SectionData(data, key) == IF key \in DOMAIN data THEN data[key] ELSE JUndefined

\* section.data !== null && section.data !== undefined (line 766)
SectionWrittenUnlessEmpty(value) == value.t \notin {"null", "undefined"} /\ value # EmptyList

SectionWritten(value) == value.t \notin {"null", "undefined"}

WriteFileKeepsExisting(dir, name, content) ==
    [f \in DOMAIN dir \cup {name} |-> IF f \in DOMAIN dir THEN dir[f] ELSE content]

\* fs.writeFile: the file is created, or its content replaced
WriteFile(dir, name, content) ==
    [f \in DOMAIN dir \cup {name} |-> IF f = name THEN content ELSE dir[f]]

NoExportInfo == [timestamp |-> 0, email |-> "", totalEndpoints |-> 0, exportVersion |-> ""]

\* The object written to a section's file (lines 770-774).
SectionContent(timestamp, name, value) ==
    [timestamp |-> timestamp, section |-> name, data |-> value, exportInfo |-> NoExportInfo,
     userData |-> NoUserData]

\* The object written to the complete file (lines 726-734).
CompleteContent(timestamp, tk, data) ==
    [timestamp |-> timestamp, section |-> "", data |-> JNull,
     exportInfo |-> [timestamp |-> timestamp, email |-> tk.email,
                     totalEndpoints |-> Cardinality(DOMAIN data), exportVersion |-> "1.0.0"],
     userData |-> data]

\* The loop of lines 765-780 from section k on.
RECURSIVE writeSections(_, _, _, _)
writeSections(dir, data, timestamp, k) ==
    IF k > Len(exportSections) THEN dir
    ELSE LET section == exportSections[k]
             value == SectionData(data, section.key)
         IN writeSections(
                IF SectionWritten(value)
                THEN WriteFile(dir, SectionFile(section.name),
                               SectionContent(timestamp, section.name, value))
                ELSE dir,
                data, timestamp, k + 1)

exportDataIntoFreshDir(dir, data, timestamp, tk) ==
    writeSections(WriteFile(EmptyDir, CompleteFile, CompleteContent(timestamp, tk, data)),
                  data, timestamp, 1)

exportData(dir, data, timestamp, tk) ==
    writeSections(WriteFile(dir, CompleteFile, CompleteContent(timestamp, tk, data)),
                  data, timestamp, 1)

(***************************************************************************)
(* ConfigManager (config.ts).  A file of the config directory is absent, or *)
(* holds text that JSON.parse rejects, or holds a JSON object: a function   *)
(* from its keys to their values.  The values written are strings and       *)
(* integers, which JSON.stringify and JSON.parse carry unchanged.  Of       *)
(* DEFAULT_CONFIG the model keeps the options a command can change and the  *)
(* refresh buffer; baseUrl, userAgent and appVersion are strings no command *)
(* touches.                                                                 *)
(***************************************************************************)
EmptyObject == [k \in {} |-> 0]

NoFile == [exists |-> FALSE, parsable |-> FALSE, json |-> EmptyObject]

JsonFile(json) == [exists |-> TRUE, parsable |-> TRUE, json |-> json]

CorruptFile == [exists |-> TRUE, parsable |-> FALSE, json |-> EmptyObject]

EmptyHome == [config |-> NoFile, credentials |-> NoFile]

DEFAULT_CONFIG ==
    [outputDir |-> "function-health-export", retryAttempts |-> 3,
     retryDelay |-> DefaultRetryDelay, rateLimit |-> DefaultRateLimit,
     tokenRefreshBuffer |-> 300, maxIndividualBiomarkers |-> 0]

\* { ...a, ...b }
Spread(a, b) == [k \in DOMAIN a \cup DOMAIN b |-> IF k \in DOMAIN b THEN b[k] ELSE a[k]]

\* loadConfig(): the saved options over the defaults; the defaults when the file
\* cannot be read or parsed
loadConfig(file) ==
    IF file.exists /\ file.parsable THEN Spread(DEFAULT_CONFIG, file.json) ELSE DEFAULT_CONFIG

\* saveConfig(config): the file after it
saveConfig(file, cfg) == JsonFile(Spread(loadConfig(file), cfg))

\* loadCredentials(): {} when the file cannot be read or parsed
loadCredentials(file) == IF file.exists /\ file.parsable THEN file.json ELSE EmptyObject

\* saveCredentials(credentials): the file after it
saveCredentials(credentials) == JsonFile(credentials)

\* clearCredentials(): the file after it (unlink; a missing file is not an error)
clearCredentials == NoFile

(***************************************************************************)
(* The remote service.  By default every data endpoint behaves the same way *)
(* (env.base: it answers 200 with a populated body, or every attempt throws *)
(* a transport error) within the second, and the refresh endpoint issues a  *)
(* new token.  Up to env.devLeft times in a run the environment deviates:   *)
(* a call gets any other outcome, or a second passes before a request.      *)
(***************************************************************************)
Item(id, sexDetails, requisition_id) ==
    [id |-> id, sexDetails |-> sexDetails, requisition_id |-> requisition_id]

SexDetail(id, sex) == [id |-> id, sex |-> sex]

Biomarker(k) ==
    IF k % 3 = 1 THEN Item(k, <<SexDetail(10 * k + 1, "Male"), SexDetail(10 * k + 3, "All")>>, Undefined)
    ELSE IF k % 3 = 2 THEN Item(k, <<>>, Undefined)
    ELSE Item(k, <<SexDetail(10 * k + 3, "All")>>, Undefined)

ServerBiomarkers == [k \in 1..MaxBiomarkers |-> Biomarker(k)]

OneItemList == JList(<<Item(1, <<>>, Undefined)>>)

ListPaths == {"/user/cards", "/user/codes", "/results", "/categories", "/biomarker-details",
              "/recommendations", "/notes", "/notifications", "/requisitions?pending=true",
              "/requisitions?pending=false", "/pending-schedules", "/smart-addons"}

PopulatedBody(path) ==
    IF path = "/user" THEN JObject("Male", "")
    ELSE IF path = "/biomarkers" THEN JList(ServerBiomarkers)
    ELSE IF path = "/results" THEN JList(<<Item(1, <<>>, 7)>>)
    ELSE IF path = "/biomarker-data" THEN JObject("", "text")
    ELSE IF path \in ListPaths THEN OneItemList
    ELSE JObject("", "")

DeviantBodies(path) ==
    {Unparsable, JNull, EmptyList, OneItemList, JObject("", "")}
    \cup (IF path = "/user" THEN {JObject("female", ""), JObject("other", "")} ELSE {})
    \cup (IF path = "/biomarkers" THEN {JList(<<Biomarker(3)>>)} ELSE {})

ErrorStatuses == {401, 404, 429, 500}

TransportError == MkError("TypeError", "fetch failed")

\* The outcomes of m attempts: k that throw, then (if k < m) the response final.
OutSeq(k, final, m) == [j \in 1..m |-> IF j <= k THEN Throws(TransportError) ELSE final]

BaseOuts(path, m, base) ==
    IF base = "ok" THEN OutSeq(0, Responds(200, PopulatedBody(path)), m)
    ELSE OutSeq(m, NoOutcome, m)

DeviantOuts(path, m) ==
    { OutSeq(k, f, m) : k \in {0, m - 1} \cap (0..m),
                        f \in {Responds(200, b) : b \in DeviantBodies(path)}
                              \cup {Responds(st, NoBody) : st \in ErrorStatuses} }
    \cup {OutSeq(m, NoOutcome, m)}

DataInputs(path, cfg, e) ==
    {[outs |-> BaseOuts(path, cfg.retryAttempts, e.base), cost |-> 0]}
    \cup (IF e.devLeft > 0
          THEN {[outs |-> o, cost |-> 1] : o \in DeviantOuts(path, cfg.retryAttempts)}
          ELSE {})

\* The refresh endpoint: by default it issues a new token with the lifetime of
\* the old one; any other outcome is a deviation.
NewToken(tk, x) == JAuth([NoAuth EXCEPT !.access_token = tk.idToken + 1, !.expires_in = x])

BaseRefreshOuts(tk, m) == OutSeq(0, Responds(200, NewToken(tk, tk.expiresIn)), m)

DeviantRefreshOuts(tk, m) ==
    { OutSeq(m, NoOutcome, m), OutSeq(0, Responds(400, NoBody), m),
      OutSeq(0, Responds(200, Unparsable), m) }
    \cup { OutSeq(k, Responds(200, NewToken(tk, x)), m)
           : k \in {0, m - 1} \cap (0..m), x \in ExpiresInChoices \cup {tk.expiresIn + 1} }

RefreshInputs(tk, cfg, e) ==
    {[outs |-> BaseRefreshOuts(tk, cfg.retryAttempts), cost |-> 0]}
    \cup (IF e.devLeft > 0
          THEN {[outs |-> o, cost |-> 1] : o \in DeviantRefreshOuts(tk, cfg.retryAttempts)}
          ELSE {})

NoRefreshInput == [outs |-> <<>>, cost |-> 0]

\* The seconds that pass before a request of a run: none, or (a deviation) one.
ClockAdvances(e) == IF e.devLeft > 0 /\ now < MaxTime THEN {0, 1} ELSE {0}

LoginOuts(m) ==
    { OutSeq(m, NoOutcome, m), OutSeq(0, Responds(401, NoBody), m),
      OutSeq(0, Responds(200, Unparsable), m),
      OutSeq(0, Responds(200, JAuth([NoAuth EXCEPT !.idToken = LoginIdToken])), m) }
    \cup { OutSeq(k, Responds(200, JAuth([NoAuth EXCEPT !.idToken = LoginIdToken,
                                                        !.refreshToken = LoginRefreshToken,
                                                        !.expiresIn = x])), m)
           : k \in {0, m - 1} \cap (0..m), x \in ExpiresInChoices }

(***************************************************************************)
(* The state machine of the client.                                         *)
(***************************************************************************)
TaskAt(idx) == [idx |-> idx, stage |-> 1, first |-> EmptyList, firstFailed |-> FALSE]

NoTask == TaskAt(0)

NoDetail == [list |-> <<>>, i |-> 0, out |-> <<>>, sexFilter |-> "All"]

NoRequest == [task |-> "", url |-> Url("", 0), status |-> 0, raised |-> FALSE,
              error |-> NoError, swallowed |-> NoError, null |-> TRUE, log |-> <<>>,
              before |-> NoTokens, checkedAt |-> 0, refreshOuts |-> <<>>, outs |-> <<>>,
              refreshNeeded |-> FALSE, refreshFailed |-> FALSE]

\* The last login call: the outcomes of its attempts, the session before it,
\* the time it was made, and whether it raised.
NoLogin == [called |-> FALSE, outs |-> <<>>, before |-> NoTokens, at |-> 0, threw |-> FALSE,
            error |-> NoError, log |-> <<>>]

\* The last exportData call: the aggregate and the timestamp it was given and the
\* directory before it.
NoExport == [done |-> FALSE, data |-> NoUserData, timestamp |-> 0, before |-> EmptyDir]

\* The last command run from the shell: its name, whether it was a reset, and the
\* password the user supplied to it.
NoCommand == [name |-> "", reset |-> FALSE, password |-> ""]

HistInit ==
    [hadSession |-> FALSE,      \* fetchAllData started with a session
     refreshNeeded |-> FALSE,   \* some request of the run found the token past the threshold
     refreshFailed |-> FALSE,   \* some refresh of the run failed
     fetchAfterRefreshFailure |-> FALSE,  \* a data call was sent after a refresh failed
     failed |-> {},             \* the tasks all of whose requests failed
     saw401 |-> {},             \* the tasks one of whose requests was answered 401
     fnRaised |-> {},           \* the tasks whose task.fn() threw
     ran |-> {},                \* the tasks whose task.fn() was invoked
     detailFailed |-> FALSE,    \* a request of the detail phase failed
     detailIds |-> <<>>,        \* per biomarker processed: the identifier requested (Undefined: none)
     login |-> NoLogin,         \* the login call just made (forgotten once a run starts)
     export |-> NoExport,       \* the last exportData call
     cmd |-> NoCommand,         \* the last command (SpecCommands)
     last |-> NoRequest]        \* the last makeRequest call

RetryIdle == RetryStart(<<>>, 0, 0)

Init ==
    /\ retry = RetryIdle
    /\ pc = "start"
    /\ config \in Configs
    /\ tokens = NoTokens
    /\ now = 0
    /\ userData = NoUserData
    /\ task = NoTask
    /\ detail = NoDetail
    /\ env \in [base : {"ok", "throw"}, devLeft : {MaxDeviations}]
    /\ files = EmptyDir
    /\ home = EmptyHome
    /\ exitCode = <<>>
    /\ hist = HistInit

\* A makeRequest call failed: it raised, or it returned null for a response that
\* was not a parsed 2xx.
RequestFailed(r) == r.raised \/ ~(r.status >= 200 /\ r.status <= 299) \/ r.swallowed # NoError

SentFetch(log) == \E k \in 1..Len(log) : log[k].ev = "fetch" /\ log[k].url # RefreshUrl

LastRequest(name, url, r, io) ==
    [task |-> name, url |-> url, status |-> r.status, raised |-> r.raised, error |-> r.error,
     swallowed |-> r.swallowed, null |-> (r.value.t = "null"), log |-> r.log,
     before |-> tokens, checkedAt |-> now + io.dt, refreshOuts |-> io.refreshOuts,
     outs |-> IF SentFetch(r.log) THEN io.outs ELSE <<>>,
     refreshNeeded |-> r.refreshNeeded, refreshFailed |-> r.refreshFailed]

Observe(h, name, url, r, io) ==
    [h EXCEPT !.refreshNeeded = @ \/ r.refreshNeeded,
              !.refreshFailed = @ \/ r.refreshFailed,
              !.fetchAfterRefreshFailure = @ \/ (h.refreshFailed /\ SentFetch(r.log)),
              !.saw401 = IF r.status = 401 THEN @ \cup {name} ELSE @,
              !.last = LastRequest(name, url, r, io)]

\* client.login(email, password)
Login ==
    /\ pc \in {"start", "ready"}
    /\ \E outs \in LoginOuts(config.retryAttempts) :
         /\ LET r == login(tokens, config, now, outs)
            IN /\ tokens' = r.tokens
               /\ now' = now
               /\ pc' = IF r.threw THEN "loginFailed" ELSE "ready"
               /\ hist' = [hist EXCEPT !.login = [called |-> TRUE, outs |-> outs, before |-> tokens,
                                                  at |-> now, threw |-> r.threw,
                                                  error |-> r.error, log |-> r.log]]
    /\ UNCHANGED <<retry, config, userData, task, detail, env, files, home, exitCode>>

\* fetchAllData(), up to the first task (lines 570-649), wait seconds after the
\* last clock reading
FetchAllDataStart ==
    /\ pc \in {"start", "loginFailed", "ready"}
    /\ \E wait \in 0..MaxTime : now' = now + wait
    /\ pc' = "catalog"
    /\ userData' = InitialUserData
    /\ task' = TaskAt(1)
    /\ hist' = [hist EXCEPT !.hadSession = tokens.present, !.login = NoLogin]
    /\ UNCHANGED <<retry, config, tokens, detail, env, files, home, exitCode>>

\* The target of the request a task makes at a stage.
TaskPath(t) ==
    IF t.kind = "bmi" THEN (IF task.stage = 1 THEN "/results" ELSE t.path)
    ELSE IF t.kind = "requisitions"
    THEN (IF task.stage = 1 THEN "/requisitions?pending=true" ELSE "/requisitions?pending=false")
    ELSE t.path

TaskUrl(t) ==
    IF t.kind = "bmi" /\ task.stage = 2 /\ Len(task.first.items) > 0
    THEN Url(t.path, task.first.items[1].requisition_id)
    ELSE Url(TaskPath(t), 0)

\* The value task.fn() returns once its last request has returned value.
TaskValue(t, value) ==
    IF t.kind = "bmi" THEN value
    ELSE IF t.kind = "requisitions" THEN JList(task.first.items \o Wrap("list", value).items)
    ELSE Wrap(t.kind, value)

TwoRequests(t) == t.kind \in {"bmi", "requisitions"}

\* Lines 676-712, with data the aggregate after the last task: the detail phase
\* starts, or fetchAllData returns.
AfterCatalog(data) ==
    LET limited == LimitedBiomarkers(data["biomarkers"].items, config.maxIndividualBiomarkers)
    IN IF Len(data["biomarkers"].items) > 0 /\ Len(limited) > 0
       THEN /\ pc' = "details"
            /\ detail' = [list |-> limited, i |-> 1, out |-> <<>>,
                          sexFilter |-> SexFilter(UserSex(data["profile"]))]
       ELSE /\ pc' = "returned"
            /\ detail' = NoDetail

\* The task is over (its function returned or threw): the loops go on.
NextTask(data) ==
    IF task.idx < Len(Catalog)
    THEN /\ task' = TaskAt(task.idx + 1)
         /\ pc' = "catalog"
         /\ detail' = NoDetail
    ELSE /\ task' = NoTask
         /\ AfterCatalog(data)

\* One request of the current task of the catalog, and, when it is the task's last,
\* the rest of the loop body (lines 655-670).
TaskRequest ==
    /\ pc = "catalog"
    /\ LET t == Catalog[task.idx]
           url == TaskUrl(t)
       IN \E dt \in ClockAdvances(env) :
            /\ LET needs == tokens.present /\ NeedsRefresh(tokens, config, now + dt)
                   e1 == [env EXCEPT !.devLeft = @ - dt]
               IN \E ro \in (IF needs THEN RefreshInputs(tokens, config, e1) ELSE {NoRefreshInput}) :
                  \E d \in DataInputs(TaskPath(t), config, [e1 EXCEPT !.devLeft = @ - ro.cost]) :
                    LET io == [dt |-> dt, lat |-> 0, refreshOuts |-> ro.outs, outs |-> d.outs]
                        r == makeRequest(tokens, config, now, url, io)
                        h == Observe([hist EXCEPT !.ran = @ \cup {t.name}], t.name, url, r, io)
                        allFailed == RequestFailed(r) /\ (task.stage = 1 \/ task.firstFailed)
                    IN /\ tokens' = r.tokens
                       /\ now' = r.now
                       /\ env' = [env EXCEPT !.devLeft = @ - dt - ro.cost - d.cost]
                       /\ IF r.raised
                          THEN \* caught by the task's catch clause (line 665)
                               /\ userData' = userData
                               /\ hist' = [h EXCEPT !.fnRaised = @ \cup {t.name},
                                                    !.failed = @ \cup {t.name}]
                               /\ NextTask(userData)
                          ELSE IF TwoRequests(t) /\ task.stage = 1
                          THEN /\ userData' = userData
                               /\ hist' = h
                               /\ task' = [task EXCEPT !.stage = 2,
                                                       !.first = Wrap("list", r.value),
                                                       !.firstFailed = RequestFailed(r)]
                               /\ pc' = "catalog"
                               /\ detail' = NoDetail
                          ELSE /\ userData' = SetKey(userData, t.name, TaskValue(t, r.value))
                               /\ hist' = [h EXCEPT !.failed = IF allFailed THEN @ \cup {t.name} ELSE @]
                               /\ NextTask(SetKey(userData, t.name, TaskValue(t, r.value)))
    /\ UNCHANGED <<retry, config, files, home, exitCode>>

\* One iteration of the loop of fetchIndividualBiomarkers and, after the last one,
\* the return of fetchAllData (lines 699-712).
DetailStep ==
    /\ pc = "details"
    /\ LET biomarker == detail.list[detail.i]
           sexDetailsId == SexDetailsId(biomarker, detail.sexFilter)
           url == Url("/biomarker-data", sexDetailsId)
           Finish(out) ==
               IF detail.i < Len(detail.list)
               THEN /\ detail' = [detail EXCEPT !.i = detail.i + 1, !.out = out]
                    /\ pc' = "details"
                    /\ userData' = userData
               ELSE /\ detail' = [detail EXCEPT !.i = detail.i + 1, !.out = out]
                    /\ pc' = "returned"
                    /\ userData' = SetKey(userData, "individualBiomarkers", JList(out))
       IN IF sexDetailsId = Undefined
          THEN /\ Finish(Append(detail.out, EmptyDetailRecord(biomarker, detail.sexFilter)))
               /\ hist' = [hist EXCEPT !.detailIds = Append(@, Undefined)]
               /\ UNCHANGED <<tokens, now, env>>
          ELSE \E dt \in ClockAdvances(env) :
            /\ LET needs == tokens.present /\ NeedsRefresh(tokens, config, now + dt)
                   e1 == [env EXCEPT !.devLeft = @ - dt]
               IN \E ro \in (IF needs THEN RefreshInputs(tokens, config, e1) ELSE {NoRefreshInput}) :
                  \E d \in DataInputs("/biomarker-data", config, [e1 EXCEPT !.devLeft = @ - ro.cost]) :
                    LET io == [dt |-> dt, lat |-> 0, refreshOuts |-> ro.outs, outs |-> d.outs]
                        r == makeRequest(tokens, config, now, url, io)
                        h == Observe(hist, "individualBiomarkers", url, r, io)
                    IN /\ tokens' = r.tokens
                       /\ now' = r.now
                       /\ env' = [env EXCEPT !.devLeft = @ - dt - ro.cost - d.cost]
                       /\ hist' = [h EXCEPT !.detailFailed = @ \/ RequestFailed(r),
                                            !.detailIds = Append(@, sexDetailsId)]
                       /\ IF r.raised
                          THEN \* not in any task's try block: line 713 catches and rethrows
                               /\ pc' = "raised"
                               /\ UNCHANGED <<userData, detail>>
                          ELSE IF r.value.t # "null"
                          THEN Finish(Append(detail.out,
                                   DetailRecord(biomarker, r.value.text, detail.sexFilter, r.value)))
                          ELSE Finish(Append(detail.out, EmptyDetailRecord(biomarker, detail.sexFilter)))
    /\ UNCHANGED <<retry, config, task, files, home, exitCode>>

Next == Login \/ FetchAllDataStart \/ TaskRequest \/ DetailStep

Spec == Init /\ [][Next]_vars

(***************************************************************************)
(* retryRequest on its own: every retry configuration and every sequence of *)
(* attempt outcomes, one pass through the loop per step.                    *)
(***************************************************************************)
RetryDelayChoices == {0, 250, DefaultRetryDelay}

RetryOutcomes == {Throws(e) : e \in TransportErrors} \cup {Responds(200, JNull), Responds(500, NoBody)}

InitRetry ==
    /\ retry \in { RetryStart(outs, Len(outs), b) :
                      b \in RetryDelayChoices,
                      outs \in UNION {[1..m -> RetryOutcomes] : m \in 0..MaxAttempts} }
    /\ pc = "start"
    /\ config \in {c \in Configs : c.retryAttempts = 2 /\ c.maxIndividualBiomarkers = 0}
    /\ tokens = NoTokens
    /\ now = 0
    /\ userData = NoUserData
    /\ task = NoTask
    /\ detail = NoDetail
    /\ env = [base |-> "ok", devLeft |-> 0]
    /\ files = EmptyDir
    /\ home = EmptyHome
    /\ exitCode = <<>>
    /\ hist = HistInit

RetryIteration ==
    /\ retry.status = "running"
    /\ retry' = retryStep(retry)
    /\ UNCHANGED clientVars

NextRetry == RetryIteration

SpecRetry == InitRetry /\ [][NextRetry]_vars

(***************************************************************************)
(* exportData on its own: aggregates of every shape (each key null, empty   *)
(* or populated) are exported, one after another, into the same directory.  *)
(* The timestamp of an export is the clock reading, which advances between  *)
(* exports.                                                                 *)
(***************************************************************************)
PopulatedValue(key) == IF key \in ListKeys THEN OneItemList ELSE JObject("", "")

\* The keys whose values vary over the aggregates exported.
ExportKeys == {"profile", "results", "codes", "inviteCode"}

ExportAggregates ==
    UNION { { [k \in ListKeys \cup ScalarKeys |->
                 IF k = key THEN v
                 ELSE IF populated THEN PopulatedValue(k) ELSE DeclaredEmpty(k)]
              : populated \in BOOLEAN, v \in {JNull, EmptyList, PopulatedValue(key)} }
            : key \in ExportKeys }

ExportSession ==
    [present |-> TRUE, idToken |-> LoginIdToken, refreshToken |-> LoginRefreshToken,
     expiresIn |-> 2, localId |-> "u1", email |-> "a@b.com", loginTime |-> 0]

InitExport ==
    /\ retry = RetryIdle
    /\ pc = "export"
    /\ config \in {c \in Configs : c.retryAttempts = 2 /\ c.maxIndividualBiomarkers = 0}
    /\ tokens \in {NoTokens, ExportSession}
    /\ now = 0
    /\ userData \in ExportAggregates
    /\ task = NoTask
    /\ detail = NoDetail
    /\ env = [base |-> "ok", devLeft |-> 0]
    /\ files = EmptyDir
    /\ home = EmptyHome
    /\ exitCode = <<>>
    /\ hist = HistInit

\* client.exportData(userData, outputDir)
ExportData ==
    /\ pc = "export"
    /\ now < MaxExports
    /\ files' = exportData(files, userData, now, tokens)
    /\ now' = now + 1
    /\ hist' = [hist EXCEPT !.export = [done |-> TRUE, data |-> userData, timestamp |-> now,
                                        before |-> files]]
    /\ UNCHANGED <<retry, pc, config, tokens, userData, task, detail, env, home, exitCode>>

\* The caller comes back with the aggregate of another run.
NewAggregate ==
    /\ pc = "export"
    /\ hist.export.done
    /\ now < MaxExports
    /\ userData' \in ExportAggregates \ {userData}
    /\ UNCHANGED <<retry, pc, config, tokens, now, task, detail, env, files, hist, home, exitCode>>

NextExport == ExportData \/ NewAggregate

SpecExport == InitExport /\ [][NextExport]_vars

(***************************************************************************)
(* The command-line interface (cli.ts): the export command and the config   *)
(* command.  "" stands for an option that was not given and for an empty    *)
(* answer to a prompt: both are falsy.                                      *)
(***************************************************************************)
\* JavaScript truthiness of a fetched value: null and undefined are falsy, every
\* object and every array is truthy.
Truthy(value) == value.t \notin {"null", "undefined"}

\* value && value.length > 0
NonEmpty(value) == Truthy(value) /\ Len(value.items) > 0

\* validateExportData(userData).valid (lines 570-575)
validateExportData(data) ==
    Truthy(data.profile) \/ NonEmpty(data.results) \/ NonEmpty(data.biomarkers)

ExportOutcome(dir, exit, exported) == [files |-> dir, exit |-> exit, exported |-> exported]

finishExportWritesWhatItHas(stopped, data, dir, timestamp, tk) ==
    IF stopped = "returned" /\ validateExportData(data)
    THEN ExportOutcome(exportData(dir, data, timestamp, tk), 0, TRUE)
    ELSE IF stopped = "raised"
    THEN ExportOutcome(exportData(dir, data, timestamp, tk), 1, TRUE)
    ELSE ExportOutcome(dir, 1, FALSE)

\* The export command once the client has stopped (lines 613-667): an error out of
\* login or fetchAllData is caught at line 653 and the process exits with 1; so it
\* does when the validation fails (line 624); otherwise exportData runs and the
\* process ends normally.
finishExport(stopped, data, dir, timestamp, tk) ==
    IF stopped = "returned" /\ validateExportData(data)
    THEN ExportOutcome(exportData(dir, data, timestamp, tk), 0, TRUE)
    ELSE ExportOutcome(dir, 1, FALSE)

\* A configuration whose refresh buffer exceeds the lifetime of every token: each
\* gateway request finds the token past the threshold.  It has one attempt per
\* request (--no-retry, line 594).
EagerRefreshConfig ==
    [retryAttempts |-> 1, retryDelay |-> DefaultRetryDelay, rateLimit |-> DefaultRateLimit,
     tokenRefreshBuffer |-> 3, maxIndividualBiomarkers |-> 1]

\* The configurations the export command hands to the client.
CliConfigs == Configs \cup {EagerRefreshConfig}

(***************************************************************************)
(* One export run (SpecCli): the command has loaded its configuration and   *)
(* has the credentials; it logs in, fetches, validates and exports.         *)
(***************************************************************************)
InitCli ==
    /\ retry = RetryIdle
    /\ pc = "start"
    /\ config \in CliConfigs
    /\ tokens = NoTokens
    /\ now = 0
    /\ userData = NoUserData
    /\ task = NoTask
    /\ detail = NoDetail
    /\ env \in [base : {"ok", "throw"}, devLeft : {MaxDeviations}]
    /\ files = EmptyDir
    /\ home = EmptyHome
    /\ exitCode = <<>>
    /\ hist = HistInit

\* await client.login(email, password) (line 613)
ExportLogin == pc = "start" /\ Login

\* await client.fetchAllData() (line 616): the statement after the login, reached
\* within the second
ExportFetchAllData == pc = "ready" /\ FetchAllDataStart /\ now' = now

\* The rest of the command (lines 618-667).
ExportFinish ==
    /\ pc \in {"loginFailed", "raised", "returned"}
    /\ exitCode = <<>>
    /\ LET r == finishExport(pc, userData, files, now, tokens)
       IN /\ files' = r.files
          /\ exitCode' = <<r.exit>>
          /\ hist' = IF r.exported
                     THEN [hist EXCEPT !.export = [done |-> TRUE, data |-> userData,
                                                   timestamp |-> now, before |-> files]]
                     ELSE hist
    /\ UNCHANGED <<retry, pc, config, tokens, now, userData, task, detail, env, home>>

NextCli == ExportLogin \/ ExportFetchAllData \/ TaskRequest \/ DetailStep \/ ExportFinish

SpecCli == InitCli /\ [][NextCli]_vars

(***************************************************************************)
(* Commands run one after another from the shell (SpecCommands).  Each      *)
(* command is a process of its own; the config directory and the output     *)
(* directory are what it leaves behind.  What the client does for an export *)
(* command is an input here: where it stopped, the session login stored and *)
(* the aggregate fetchAllData returned.  The output directory is one        *)
(* directory, whatever name the options give it.                            *)
(***************************************************************************)
Password == "hunter2"

UserEmail == "a@b.com"

\* The options of the export command that decide what is persisted.  config is
\* the --config file: not given, a file that cannot be read or parsed, or a
\* file that parses.
ExportOptions ==
    [email : {"", UserEmail}, password : {"", Password}, saveCredentials : BOOLEAN,
     config : {"none", "unreadable", "readable"}]

\* The answers the user gives when prompted.
Typed == [email : {"", UserEmail}, password : {Password}]

CustomConfig == [rateLimit |-> DefaultRateLimit]

\* loadConfig(configPath) of the CLI (lines 502-518): a custom file is taken as it
\* parses, without the defaults; a custom file that fails ends the process
cliLoadConfig(custom, file) ==
    IF custom = "none" THEN [ok |-> TRUE, config |-> loadConfig(file)]
    ELSE IF custom = "readable" THEN [ok |-> TRUE, config |-> CustomConfig]
    ELSE [ok |-> FALSE, config |-> EmptyObject]

SavedEmail(saved) == IF "email" \in DOMAIN saved THEN saved.email ELSE ""

getCredentialsSavesPassword(options, typed, file) ==
    LET saved == IF options.email = "" \/ options.password = ""
                 THEN loadCredentials(file) ELSE EmptyObject
        given == IF options.email # "" THEN options.email ELSE SavedEmail(saved)
        email == IF given # "" THEN given ELSE typed.email
        password == IF options.password # "" THEN options.password ELSE typed.password
    IN [email |-> email, password |-> password,
        credentials |-> IF options.saveCredentials /\ email # ""
                        THEN saveCredentials([email |-> email, password |-> password])
                        ELSE file]

\* getCredentials(options) (lines 520-553): the email and the password the login
\* gets, and the credentials file after it
getCredentials(options, typed, file) ==
    LET saved == IF options.email = "" \/ options.password = ""
                 THEN loadCredentials(file) ELSE EmptyObject
        given == IF options.email # "" THEN options.email ELSE SavedEmail(saved)
        email == IF given # "" THEN given ELSE typed.email
        password == IF options.password # "" THEN options.password ELSE typed.password
    IN [email |-> email, password |-> password,
        credentials |-> IF options.saveCredentials /\ email # ""
                        THEN saveCredentials([email |-> email])
                        ELSE file]

\* What the client did for the command: where it stopped, the session and the
\* aggregate it had then.
ClientRun(stopped, tk, data) == [stopped |-> stopped, tokens |-> tk, data |-> data]

CommandAggregates ==
    { InitialUserData,
      [InitialUserData EXCEPT !.profile = PopulatedValue("profile")],
      [k \in ListKeys \cup ScalarKeys |-> PopulatedValue(k)] }

ClientRuns ==
    { ClientRun("loginFailed", NoTokens, NoUserData),
      ClientRun("raised", ExportSession, NoUserData) }
    \cup { ClientRun("returned", ExportSession, d) : d \in CommandAggregates }

\* export(options) (lines 578-667)
export(options, typed, run, h, dir, timestamp) ==
    LET loaded == cliLoadConfig(options.config, h.config)
        cr == getCredentials(options, typed, h.credentials)
        fin == finishExport(run.stopped, run.data, dir, timestamp, run.tokens)
    IN IF ~loaded.ok
       THEN [home |-> h, files |-> dir, exit |-> 1, password |-> ""]
       ELSE [home |-> [h EXCEPT !.credentials = cr.credentials], files |-> fin.files,
             exit |-> fin.exit, password |-> cr.password]

\* The options of the config command; a number option parsed to 0 or NaN is falsy
\* and is skipped like one that was not given.
NoConfigOptions ==
    [list |-> FALSE, reset |-> FALSE, outputDir |-> "", retryAttempts |-> Undefined,
     retryDelay |-> Undefined, rateLimit |-> Undefined, maxBiomarkers |-> Undefined]

ConfigOptions ==
    { [NoConfigOptions EXCEPT !.list = TRUE],
      [NoConfigOptions EXCEPT !.reset = TRUE],
      [NoConfigOptions EXCEPT !.list = TRUE, !.reset = TRUE],
      NoConfigOptions,
      [NoConfigOptions EXCEPT !.retryAttempts = 5],
      [NoConfigOptions EXCEPT !.retryAttempts = NaN],
      [NoConfigOptions EXCEPT !.outputDir = "my-export", !.maxBiomarkers = 1],
      [NoConfigOptions EXCEPT !.retryDelay = 250, !.rateLimit = 100] }

NumberGiven(n) == n # Undefined /\ n # NaN

\* The updates object of configCommand (lines 696-703).
Updates(options) ==
    [k \in {k \in {"outputDir", "retryAttempts", "retryDelay", "rateLimit", "maxIndividualBiomarkers"} :
              IF k = "outputDir" THEN options.outputDir # ""
              ELSE IF k = "maxIndividualBiomarkers" THEN NumberGiven(options.maxBiomarkers)
              ELSE NumberGiven(options[k])}
      |-> IF k = "maxIndividualBiomarkers" THEN options.maxBiomarkers ELSE options[k]]

\* configCommand(options) (lines 669-715): the config directory after it
configCommand(options, h) ==
    IF options.list THEN h
    ELSE IF options.reset
    THEN [config |-> saveConfig(h.config, EmptyObject), credentials |-> clearCredentials]
    ELSE IF DOMAIN Updates(options) # {}
    THEN [h EXCEPT !.config = saveConfig(h.config, Updates(options))]
    ELSE h

\* The config directory as the first command finds it: nothing saved yet, or a
\* config file the user damaged by hand and an email saved by an earlier run.
InitialHomes ==
    { EmptyHome, [config |-> CorruptFile, credentials |-> JsonFile([email |-> UserEmail])] }

InitCommands ==
    /\ retry = RetryIdle
    /\ pc = "shell"
    /\ config \in {c \in Configs : c.maxIndividualBiomarkers = 1}
    /\ tokens = NoTokens
    /\ now = 0
    /\ userData = NoUserData
    /\ task = NoTask
    /\ detail = NoDetail
    /\ env = [base |-> "ok", devLeft |-> 0]
    /\ files = EmptyDir
    /\ home \in InitialHomes
    /\ exitCode = <<>>
    /\ hist = HistInit

\* function-health export ...
ExportCommand ==
    /\ pc = "shell"
    /\ now < MaxCommands
    /\ \E options \in ExportOptions, typed \in Typed, run \in ClientRuns :
         LET r == export(options, typed, run, home, files, now)
         IN /\ home' = r.home
            /\ files' = r.files
            /\ exitCode' = <<r.exit>>
            /\ hist' = [hist EXCEPT !.cmd = [name |-> "export", reset |-> FALSE,
                                             password |-> r.password]]
    /\ now' = now + 1
    /\ UNCHANGED <<retry, pc, config, tokens, userData, task, detail, env>>

\* function-health config ...
ConfigCommand ==
    /\ pc = "shell"
    /\ now < MaxCommands
    /\ \E options \in ConfigOptions :
         /\ home' = configCommand(options, home)
         /\ hist' = [hist EXCEPT !.cmd = [name |-> "config",
                                          reset |-> options.reset /\ ~options.list,
                                          password |-> ""]]
    /\ exitCode' = <<0>>
    /\ now' = now + 1
    /\ UNCHANGED <<retry, pc, config, tokens, userData, task, detail, env, files>>

NextCommands == ExportCommand \/ ConfigCommand

SpecCommands == InitCommands /\ [][NextCommands]_vars

(***************************************************************************)
(* Properties of fetchAllData (checked under Spec).                         *)
(***************************************************************************)
InRun == pc \in {"catalog", "details", "returned"}

\* C1: whatever the endpoints answer, the aggregate of fetchAllData holds a key for
\* every task name of the catalog, while it is built and when it is returned.
C1_EveryTaskKeyPresent == InRun => TaskNames \subseteq DOMAIN userData

\* C1's case: fetchAllData returned although every task of the catalog failed.
C1_AllFetchesFailed == pc = "returned" /\ hist.hadSession /\ hist.failed = TaskNames

\* C2 (as claimed): when fetchAllData has returned, the key of every failed task holds
\* the empty value the aggregate's shape declares for it (null for a scalar, [] for a list).
C2_FailedKeyHoldsDeclaredEmpty ==
    pc = "returned" => \A n \in hist.failed : userData[n] = DeclaredEmpty(n)

\* C3 (as claimed): once a needed token refresh has failed, fetchAllData has raised and
\* no data call was sent after the failure.
C3_RefreshFailureAbortsRun ==
    hist.refreshFailed => (pc = "raised" /\ ~hist.fetchAfterRefreshFailure)

\* C4 (as claimed): fetchAllData returns an aggregate only if the client held a session
\* when it was invoked; without one it raises.
C4_NoSessionRaises == pc = "returned" => hist.hadSession

\* C5: with a session whose token never needs a refresh during the run, fetchAllData
\* never raises, whatever the data endpoints answer in the catalog and detail phases.
C5_NeverRaisesOnDataFailures == (hist.hadSession /\ ~hist.refreshNeeded) => pc # "raised"

\* C5's case: the run returned although a detail request was answered 401.
C5_ReturnedAfterDetail401 ==
    /\ pc = "returned" /\ hist.hadSession /\ ~hist.refreshNeeded
    /\ hist.last.task = "individualBiomarkers" /\ hist.last.status = 401

\* C6 (as claimed): a task one of whose requests is answered 401 has its fetch raise,
\* ends with its declared empty value under its key, and the tasks after it still run.
C6_Fetch401RaisesAndRunGoesOn ==
    \A n \in hist.saw401 \cap TaskNames :
        /\ n \in hist.fnRaised
        /\ pc = "returned" => (userData[n] = DeclaredEmpty(n) /\ hist.ran = TaskNames)

\* C7 (as claimed): makeRequest raises for a response status 401, 429 or >= 500,
\* and returns null without raising for every other non-2xx status.
C7_HardStatusesRaise ==
    LET st == hist.last.status
    IN /\ (st = 401 \/ st = 429 \/ st >= 500) => hist.last.raised
       /\ (st # 0 /\ ~(st >= 200 /\ st <= 299) /\ ~(st = 401 \/ st = 429 \/ st >= 500))
              => (~hist.last.raised /\ hist.last.null)

(***************************************************************************)
(* Properties of retryRequest (checked under SpecRetry).                    *)
(***************************************************************************)
AllAttemptsThrow(s) == \A k \in 1..Len(s.outs) : s.outs[k].throws

\* The total of the backoff waits in a log.
RECURSIVE TotalBackoff(_)
TotalBackoff(log) ==
    IF log = <<>> THEN 0
    ELSE (IF Head(log).ev = "backoff" THEN Head(log).ms ELSE 0) + TotalBackoff(Tail(log))

\* 2^1 + 2^2 + ... + 2^(m-1)
RECURSIVE PowerSum(_)
PowerSum(m) == IF m <= 1 THEN 0 ELSE Pow2(m - 1) + PowerSum(m - 1)

\* The index of the first attempt that does not throw (0: every attempt throws).
RECURSIVE FirstSuccessFrom(_, _)
FirstSuccessFrom(outs, k) ==
    IF k > Len(outs) THEN 0
    ELSE IF ~outs[k].throws THEN k
    ELSE FirstSuccessFrom(outs, k + 1)

FirstSuccess(outs) == FirstSuccessFrom(outs, 1)

\* C8: with maxAttempts = m >= 1 and baseDelayMs = b, an operation that throws on every
\* attempt is invoked exactly m times; the waits before the last attempt add up to
\* b*(2^1 + ... + 2^(m-1)), and nothing is waited before the first attempt.
C8_AllFailInvocationsAndWait ==
    (retry.status # "running" /\ retry.attempts >= 1 /\ AllAttemptsThrow(retry)) =>
        /\ retry.calls = retry.attempts
        /\ TotalBackoff(retry.log) = retry.retryDelay * PowerSum(retry.attempts)
        /\ retry.log[1] = CallEvent
        /\ retry.log[Len(retry.log)] = CallEvent

\* C8's case: three attempts with a base delay of 1000 ms, all of which threw.
C8_ThreeAttemptsAllThrew ==
    /\ retry.status = "threw" /\ retry.attempts = 3 /\ retry.retryDelay = DefaultRetryDelay
    /\ AllAttemptsThrow(retry)

C10_StopsAtFirstSuccess ==
    LET f == FirstSuccess(retry.outs)
    IN /\ retry.calls <= retry.attempts
       /\ retry.status = "running" => \A k \in 1..retry.calls : retry.outs[k].throws
       /\ retry.status # "running" =>
            /\ retry.calls = IF f > 0 THEN f ELSE retry.attempts
            /\ f > 0 => (retry.status = "returned" /\ retry.value = retry.outs[f])
            /\ f = 0 => retry.status = "threw"

\* C10's case: the second of three attempts succeeded, and a third was never made.
C10_ReturnedAtSecondAttempt ==
    /\ retry.status = "returned" /\ retry.attempts = 3 /\ retry.calls = 2
    /\ retry.outs[1].throws /\ retry.value = retry.outs[2]

(***************************************************************************)
(* Properties of the gateway and the session (checked under Spec).  They    *)
(* read hist.last, the record of the last makeRequest call, and tokens,     *)
(* the session after it.                                                    *)
(***************************************************************************)
IsRefreshCall(e) == e.ev = "fetch" /\ e.url = RefreshUrl

IsDataCall(e) == e.ev = "fetch" /\ e.url # RefreshUrl

RefreshCalls(log) == {k \in 1..Len(log) : IsRefreshCall(log[k])}

DataCalls(log) == {k \in 1..Len(log) : IsDataCall(log[k])}

\* The response the refresh call ended with: the first outcome that does not throw.
RefreshResponse(l) == l.refreshOuts[FirstSuccess(l.refreshOuts)]

\* C11: a gateway request made with a session issues a refresh call if and only if
\* the token's age at the check is strictly greater than expiresIn minus the buffer.
C11_RefreshIffPastThreshold ==
    LET l == hist.last
    IN (l.task # "" /\ l.before.present) =>
          (RefreshCalls(l.log) # {}
             <=> l.checkedAt - l.before.loginTime > l.before.expiresIn - config.tokenRefreshBuffer)

\* C11's case: a request checked at an age exactly equal to expiresIn minus the
\* buffer went to the data endpoint without any refresh call.
C11_AtThresholdNoRefresh ==
    LET l == hist.last
    IN /\ l.task # "" /\ l.before.present
       /\ l.checkedAt - l.before.loginTime = l.before.expiresIn - config.tokenRefreshBuffer
       /\ RefreshCalls(l.log) = {} /\ DataCalls(l.log) # {}

\* C12: when the token is past the threshold and the refresh endpoint answers the call
\* with success, exactly one refresh call is issued, it comes before every data call of
\* the request, and every data call carries the access token of the refresh response.
C12_OneRefreshBeforeDataWithNewToken ==
    LET l == hist.last
    IN (l.refreshNeeded /\ ~l.refreshFailed /\ ~l.refreshOuts[1].throws) =>
          /\ Cardinality(RefreshCalls(l.log)) = 1
          /\ DataCalls(l.log) # {}
          /\ \A j \in RefreshCalls(l.log), k \in DataCalls(l.log) : j < k
          /\ \A k \in DataCalls(l.log) : l.log[k].token = l.refreshOuts[1].body.auth.access_token

\* C12's case: a data call answered 200 went out after a refresh, with a token other
\* than the one the session held before the request.
C12_DataCallAfterRefresh ==
    LET l == hist.last
    IN /\ l.refreshNeeded /\ ~l.refreshFailed /\ ~l.refreshOuts[1].throws /\ l.status = 200
       /\ \E k \in DataCalls(l.log) : l.log[k].token # l.before.idToken

\* C13: a successful refresh replaces idToken, expiresIn and loginTime in one step by
\* the response's access_token and expires_in and the time of the refresh, and leaves
\* every other field as it was; a request without a refresh, or whose refresh failed
\* in any way, leaves the whole session as it was.
C13_RefreshReplacesTogetherOrNothing ==
    LET l == hist.last
    IN /\ (l.refreshNeeded /\ ~l.refreshFailed) =>
              /\ tokens = [l.before EXCEPT !.idToken = RefreshResponse(l).body.auth.access_token,
                                           !.expiresIn = RefreshResponse(l).body.auth.expires_in,
                                           !.loginTime = now]
              /\ now >= l.checkedAt
       /\ (l.task # "" /\ (l.refreshFailed \/ ~l.refreshNeeded)) => tokens = l.before

\* C13's case: a refresh succeeded and changed all three of idToken, expiresIn and loginTime.
C13_AllThreeReplaced ==
    LET l == hist.last
    IN /\ l.refreshNeeded /\ ~l.refreshFailed
       /\ tokens.idToken # l.before.idToken /\ tokens.expiresIn # l.before.expiresIn
       /\ tokens.loginTime # l.before.loginTime /\ tokens.refreshToken = l.before.refreshToken

\* The login call just made was answered with a success status and a body that
\* carries both tokens.
LoginAnswerAccepted(lg) ==
    LET f == FirstSuccess(lg.outs)
    IN /\ f > 0
       /\ lg.outs[f].status >= 200 /\ lg.outs[f].status <= 299
       /\ lg.outs[f].body.t = "obj"
       /\ lg.outs[f].body.auth.idToken # Undefined
       /\ lg.outs[f].body.auth.refreshToken # Undefined

\* C14: login stores a session, stamped with the time of the login, exactly when the
\* endpoint answered with a success status and both tokens; in every other outcome it
\* raises and the session is what it was before the call.
C14_LoginStoresOnlyOnFullSuccess ==
    LET lg == hist.login
    IN (lg.called /\ pc \in {"ready", "loginFailed"}) =>
          /\ lg.threw <=> ~LoginAnswerAccepted(lg)
          /\ (pc = "loginFailed") <=> lg.threw
          /\ LoginAnswerAccepted(lg) =>
                /\ tokens.present
                /\ tokens.idToken = lg.outs[FirstSuccess(lg.outs)].body.auth.idToken
                /\ tokens.refreshToken = lg.outs[FirstSuccess(lg.outs)].body.auth.refreshToken
                /\ tokens.loginTime = lg.at
          /\ ~LoginAnswerAccepted(lg) => tokens = lg.before

\* C14's case: a login made while a session exists was answered 200 without a refresh
\* token: it raised and the earlier session is still in place.
C14_FailedLoginKeepsSession ==
    LET lg == hist.login
    IN /\ lg.called /\ pc = "loginFailed" /\ lg.before.present /\ tokens = lg.before
       /\ lg.outs[1].status = 200 /\ lg.outs[1].body.auth.idToken # Undefined
       /\ lg.outs[1].body.auth.refreshToken = Undefined

\* The milliseconds the request waited (rate-limit and backoff delays) between its
\* freshness check, refresh included, and the event at index k of its log.
RECURSIVE WaitedFrom(_, _, _)
WaitedFrom(log, j, k) == IF j >= k THEN 0 ELSE log[j].ms + WaitedFrom(log, j + 1, k)

LastRefreshCall(log) ==
    IF RefreshCalls(log) = {} THEN 0
    ELSE CHOOSE j \in RefreshCalls(log) : \A i \in RefreshCalls(log) : i <= j

WaitedMs(log, k) == WaitedFrom(log, LastRefreshCall(log) + 1, k)

\* The age of the session's token, in milliseconds, when the call at index k of the
\* last request's log was sent.
SendAgeMs(k) == (now - tokens.loginTime) * 1000 + WaitedMs(hist.last.log, k)

ThresholdMs == (tokens.expiresIn - config.tokenRefreshBuffer) * 1000

\* The data calls of the log before index k.
DataCallsBefore(log, k) == {j \in DataCalls(log) : j < k}

\* C15 (as claimed): every data call, retries included, has a freshness check between
\* the previous data call and itself, carries the session's token, and is sent while
\* the token's age is not past the refresh threshold.
C15_EveryCallFreshlyChecked ==
    LET l == hist.last
    IN \A k \in DataCalls(l.log) :
          /\ \E c \in 1..(k - 1) :
                /\ l.log[c].ev = "check"
                /\ \A j \in DataCallsBefore(l.log, k) : j < c
          /\ l.log[k].token = tokens.idToken
          /\ SendAgeMs(k) <= ThresholdMs

\* C15 (amended): a gateway request checks the token once, before its first attempt;
\* if it sends data calls, the token was at the check not past the threshold or had
\* just been refreshed, every call carries the session's token, and the n-th call is
\* sent n rate-limit waits and the backoff waits of the retries after the check.
C15_CheckedOncePerRequest ==
    LET l == hist.last
    IN l.task # "" =>
          /\ l.log[1] = CheckEvent
          /\ \A c \in 2..Len(l.log) : l.log[c].ev # "check"
          /\ DataCalls(l.log) # {} =>
                \/ now - tokens.loginTime <= tokens.expiresIn - config.tokenRefreshBuffer
                \/ l.refreshNeeded /\ ~l.refreshFailed
          /\ \A k \in DataCalls(l.log) :
                /\ l.log[k].token = tokens.idToken
                /\ WaitedMs(l.log, k) =
                      (Cardinality(DataCallsBefore(l.log, k)) + 1) * config.rateLimit
                      + config.retryDelay * PowerSum(Cardinality(DataCallsBefore(l.log, k)) + 1)

\* C15's case: a request whose first attempt threw sent its retry, without a further
\* check, when the token's age was past the threshold.
C15_RetrySentPastThreshold ==
    LET l == hist.last
    IN /\ Cardinality(DataCalls(l.log)) = 2
       /\ \E k \in DataCalls(l.log) : DataCallsBefore(l.log, k) # {} /\ SendAgeMs(k) > ThresholdMs

\* C16: every HTTP call to the data API (first attempt, retry or detail request) comes
\* right after a wait of the configured rate-limit interval, so two consecutive data
\* calls are at least that interval apart.
C16_RateLimitWaitBeforeEveryDataCall ==
    LET l == hist.last
    IN \A k \in DataCalls(l.log) :
          /\ k > 1
          /\ l.log[k - 1].ev = "delay"
          /\ l.log[k - 1].ms = config.rateLimit
          /\ \A j \in DataCallsBefore(l.log, k) : WaitedFrom(l.log, j, k) >= config.rateLimit

\* C16's case: a detail request whose first attempt threw made a retry.
C16_DetailRequestRetried ==
    /\ hist.last.task = "individualBiomarkers"
    /\ Cardinality(DataCalls(hist.last.log)) = 2

\* The task names in the order the sections and their tasks are declared.
DeclaredOrder ==
    << "profile", "settings", "inviteCode", "cards", "codes",
       "results", "biomarkers", "categories", "biomarkerDetails",
       "reports", "recommendations", "biologicalAge", "bmi", "myStory",
       "notes", "notifications",
       "requisitions", "pendingSchedules", "smartAddons" >>

\* C17: the tasks are started one after another in declaration order (the tasks started
\* so far are always the first n declared, and the last request belongs to the n-th),
\* and the detail phase runs only after every task has run and only with a non-empty
\* biomarkers list.
C17_SequentialInDeclaredOrder ==
    /\ \E n \in 0..Len(DeclaredOrder) :
          /\ hist.ran = {DeclaredOrder[j] : j \in 1..n}
          /\ (pc = "catalog" /\ n > 0) => hist.last.task = DeclaredOrder[n]
          /\ pc = "catalog" => task.idx \in {n, n + 1}
    /\ (pc = "details" \/ hist.last.task = "individualBiomarkers") =>
          /\ hist.ran = TaskNames
          /\ Len(userData["biomarkers"].items) > 0
    /\ hist.detailIds # <<>> => hist.ran = TaskNames

\* C17's case: every task of the catalog has run, smartAddons last, and the detail
\* phase is about to process its first biomarker.
C17_DetailPhaseStarts ==
    /\ pc = "details" /\ detail.i = 1 /\ hist.detailIds = <<>>
    /\ hist.last.task = "smartAddons"

\* The sex the account's profile maps to: Male, Female, or All for any other or
\* missing value.
AccountSex ==
    LET sex == userData["profile"].sex
    IN IF sex \in {"male", "Male", "MALE"} THEN "Male"
       ELSE IF sex \in {"female", "Female", "FEMALE"} THEN "Female"
       ELSE "All"

\* The identifiers of the variants of biomarker b that are scoped to sex.
VariantIds(b, sex) == {b.sexDetails[v].id : v \in {v \in 1..Len(b.sexDetails) : b.sexDetails[v].sex = sex}}

\* C18: for each biomarker the detail phase has processed, the identifier requested is
\* that of a variant matching the account's sex exactly if there is one, otherwise that
\* of an "All" variant if there is one; otherwise nothing is requested and the record
\* produced is the placeholder with empty text.
C18_VariantResolution ==
    pc \in {"details", "returned"} =>
      /\ detail.list # <<>> => detail.sexFilter = AccountSex
      /\ \A j \in 1..Len(hist.detailIds) :
            LET b == detail.list[j]
            IN IF VariantIds(b, AccountSex) # {}
               THEN hist.detailIds[j] \in VariantIds(b, AccountSex)
               ELSE IF VariantIds(b, "All") # {}
               THEN hist.detailIds[j] \in VariantIds(b, "All")
               ELSE /\ hist.detailIds[j] = Undefined
                    /\ detail.out[j].id = b.id
                    /\ detail.out[j].text = ""
                    /\ detail.out[j].fullData = JNull
      /\ (hist.detailIds # <<>> /\ hist.detailIds[Len(hist.detailIds)] # Undefined) =>
            hist.last.url = Url("/biomarker-data", hist.detailIds[Len(hist.detailIds)])

\* C18's case: for a Male account the run resolved one biomarker to its Male variant
\* although it also has an "All" variant, and found no variant for another.
C18_ExactMatchAndPlaceholder ==
    /\ pc = "returned" /\ AccountSex = "Male"
    /\ \E j \in 1..Len(hist.detailIds) :
          /\ hist.detailIds[j] \in VariantIds(detail.list[j], "Male")
          /\ VariantIds(detail.list[j], "All") # {}
    /\ \E j \in 1..Len(hist.detailIds) : hist.detailIds[j] = Undefined

\* The number of biomarkers the detail phase is to process.
ExpectedRecords ==
    LET n == Len(userData["biomarkers"].items)
        limit == config.maxIndividualBiomarkers
    IN IF limit = 0 \/ n < limit THEN n ELSE limit

\* C19: the detail phase produces one record per processed biomarker, in the order of
\* the retrieved list: while it runs there is one record for each biomarker processed
\* so far, and when fetchAllData has returned there are as many records as retrieved
\* biomarkers (limit 0) or min(limit, retrieved), for the first biomarkers of the list;
\* the detail requests never outnumber the records.
C19_OneRecordPerBiomarker ==
    /\ pc = "details" =>
          /\ Len(detail.out) = detail.i - 1
          /\ Len(detail.list) = ExpectedRecords
          /\ \A j \in 1..Len(detail.out) : detail.out[j].id = userData["biomarkers"].items[j].id
    /\ pc = "returned" =>
          LET records == userData["individualBiomarkers"].items
          IN /\ Len(records) = ExpectedRecords
             /\ \A j \in 1..Len(records) : records[j].id = userData["biomarkers"].items[j].id
             /\ Len(hist.detailIds) = Len(records)
             /\ Cardinality({j \in 1..Len(hist.detailIds) : hist.detailIds[j] # Undefined})
                   <= Len(records)

\* C19's case: with a limit of 1 and two biomarkers retrieved, the run returned one
\* record, that of a biomarker whose detail request failed.
C19_LimitedAndFailed ==
    /\ pc = "returned" /\ config.maxIndividualBiomarkers = 1
    /\ Len(userData["biomarkers"].items) = 2
    /\ Len(userData["individualBiomarkers"].items) = 1
    /\ hist.detailFailed

(***************************************************************************)
(* Properties of exportData (checked under SpecExport).  They read          *)
(* hist.export, the record of the last exportData call, and files, the      *)
(* directory after it.                                                      *)
(***************************************************************************)
\* The last export left the file alone: it is absent as before, or holds what it held.
Untouched(name) ==
    IF name \in DOMAIN hist.export.before
    THEN name \in DOMAIN files /\ files[name] = hist.export.before[name]
    ELSE name \notin DOMAIN files

\* The value the last export was given for the section at index k.
ExportedValue(k) == SectionData(hist.export.data, exportSections[k].key)

\* The last export wrote the file of the section at index k, with the value given.
SectionFileWritten(k) ==
    LET name == SectionFile(exportSections[k].name)
    IN /\ name \in DOMAIN files
       /\ files[name] = SectionContent(hist.export.timestamp, exportSections[k].name, ExportedValue(k))

Populated(value) == value.t \notin {"null", "undefined"} /\ value # EmptyList

\* C21: for every top-level key of the aggregate whose value is populated, exportData
\* writes a per-section file {timestamp, section, data} with data equal to the key's
\* value; no populated key is left without its own file.
C21_EveryPopulatedKeyHasFile ==
    hist.export.done =>
      \A key \in DOMAIN hist.export.data :
         Populated(hist.export.data[key]) =>
            \E k \in 1..Len(exportSections) :
               exportSections[k].key = key /\ SectionFileWritten(k)

\* The directory held the combined file of an export of the same aggregate before the
\* last export.
SameAggregateAgain ==
    /\ hist.export.done
    /\ CompleteFile \in DOMAIN hist.export.before
    /\ hist.export.before[CompleteFile].userData = hist.export.data

\* C22: exporting the same aggregate a second time into the same directory leaves the
\* same set of files as the first export, each with the same section name and data; a
\* file that is written again is replaced by the new envelope, not appended to or
\* merged with what it held.
C22_SecondExportSameFilesReplaced ==
    SameAggregateAgain =>
      /\ DOMAIN files = DOMAIN hist.export.before
      /\ \A f \in DOMAIN files :
            /\ files[f].section = hist.export.before[f].section
            /\ files[f].data = hist.export.before[f].data
            /\ files[f].userData = hist.export.before[f].userData
      /\ files[CompleteFile] = CompleteContent(hist.export.timestamp, tokens, hist.export.data)
      /\ \A k \in 1..Len(exportSections) : ExportedValue(k) # JNull => SectionFileWritten(k)

\* C22's case: the second export of an aggregate replaced a section file the first one
\* had written (the file carries the second export's timestamp).
C22_SectionFileReplaced ==
    /\ SameAggregateAgain
    /\ \E k \in 1..Len(exportSections) :
          LET name == SectionFile(exportSections[k].name)
          IN /\ Populated(ExportedValue(k))
             /\ name \in DOMAIN hist.export.before
             /\ hist.export.before[name].timestamp < hist.export.timestamp
             /\ files[name].timestamp = hist.export.timestamp

\* C28: exportData never deletes a file: every file the directory held is still there,
\* and the file of a section whose value is null in the exported aggregate is unchanged.
C28_NeverDeletesStaleSectionFile ==
    hist.export.done =>
      /\ DOMAIN hist.export.before \subseteq DOMAIN files
      /\ \A k \in 1..Len(exportSections) :
            ExportedValue(k) = JNull => Untouched(SectionFile(exportSections[k].name))

\* C28's case: after an export whose value for a section is null, the directory still
\* holds that section's file from an earlier export, with the earlier timestamp and
\* data that the latest aggregate does not have.
C28_StaleSectionFileRemains ==
    /\ hist.export.done
    /\ \E k \in 1..Len(exportSections) :
          LET name == SectionFile(exportSections[k].name)
          IN /\ ExportedValue(k) = JNull
             /\ name \in DOMAIN files
             /\ files[name].timestamp < hist.export.timestamp
             /\ Populated(files[name].data)
             /\ files[CompleteFile].timestamp = hist.export.timestamp

(***************************************************************************)
(* Properties of the retry executor as the client's operations use it       *)
(* (checked under Spec).                                                    *)
(***************************************************************************)
Fetches(log) == {k \in 1..Len(log) : log[k].ev = "fetch"}

Backoffs(log) == {k \in 1..Len(log) : log[k].ev = "backoff"}

\* The first HTTP call of an operation was answered (with whatever status).
FirstCallAnswered(outs) == outs # <<>> /\ ~outs[1].throws

\* The part of a gateway request's log that belongs to its data operation: what
\* follows the refresh call, if there was one.
DataLog(log) == SubSeq(log, LastRefreshCall(log) + 1, Len(log))

\* The part that belongs to the refresh operation.
RefreshLog(log) == SubSeq(log, 1, LastRefreshCall(log))

\* C27: a response is never retried, whatever its status: when the first HTTP call of
\* a login, of a token refresh or of a data request is answered, exactly one HTTP call
\* is made for that operation and no backoff wait occurs.
C27_AnsweredCallNeverRetried ==
    /\ (hist.login.called /\ FirstCallAnswered(hist.login.outs)) =>
          Cardinality(Fetches(hist.login.log)) = 1 /\ Backoffs(hist.login.log) = {}
    /\ (hist.last.refreshNeeded /\ FirstCallAnswered(hist.last.refreshOuts)) =>
          /\ Cardinality(RefreshCalls(hist.last.log)) = 1
          /\ Backoffs(RefreshLog(hist.last.log)) = {}
    /\ FirstCallAnswered(hist.last.outs) =>
          /\ Cardinality(DataCalls(hist.last.log)) = 1
          /\ Backoffs(DataLog(hist.last.log)) = {}

\* C27's case: a data request whose first HTTP call was answered 401, 429 or 500, after
\* a refresh whose first call was answered too.
C27_HardStatusAnsweredOnce ==
    /\ hist.last.status \in {401, 429, 500}
    /\ FirstCallAnswered(hist.last.outs)
    /\ Cardinality(DataCalls(hist.last.log)) = 1

\* C30: with a retry attempt count of 0, or none (a custom config file without one),
\* retryRequest never invokes the operation and raises "All retry attempts failed":
\* login fails with that error and no session is ever stored, so every gateway
\* request fails too, and no HTTP call is made at all.  With an attempt count of at
\* least 1 a login, and every gateway request that gets past the refresh, makes at
\* least one HTTP call.
C30_NoAttemptCountNoCall ==
    /\ config.retryAttempts < 1 =>
          /\ hist.login.called =>
                /\ hist.login.threw
                /\ hist.login.error = AllRetryFailedError
                /\ Fetches(hist.login.log) = {}
          /\ ~tokens.present
          /\ hist.last.task # "" =>
                RequestFailed(hist.last) /\ Fetches(hist.last.log) = {}
    /\ config.retryAttempts >= 1 =>
          /\ hist.login.called => Fetches(hist.login.log) # {}
          /\ (hist.last.task # "" /\ ~hist.last.raised) => DataCalls(hist.last.log) # {}

\* C30's case: a client configured without an attempt count was asked to log in, and
\* the login raised "All retry attempts failed" without an HTTP call.
C30_LoginRaisedWithoutCall ==
    /\ config.retryAttempts = Undefined
    /\ pc = "loginFailed"
    /\ hist.login.called /\ hist.login.error = AllRetryFailedError
    /\ hist.login.log = <<>>

(***************************************************************************)
(* Properties of the export command (checked under SpecCli).                *)
(***************************************************************************)
\* C23: in an export run the output directory changes in one step only: the one in
\* which the command, fetchAllData having returned, calls exportData for the first and
\* only time and ends.  At every earlier point of the run, and in a run that stops
\* earlier (login failure, error out of fetchAllData), the directory is untouched.
C23_FilesWrittenOnceAfterFetch ==
    [][ files' # files =>
          /\ pc = "returned"
          /\ exitCode = <<>> /\ exitCode' # <<>>
          /\ ~hist.export.done /\ hist'.export.done ]_vars

\* C23's case: a run fetched both phases and then exported.
C23_ExportedAfterBothPhases ==
    /\ pc = "returned" /\ hist.detailIds # <<>>
    /\ hist.export.done /\ files # EmptyDir
    /\ exitCode = <<0>>

\* C24: an export run in which login succeeded and some, but not all, endpoint fetches
\* failed (one that did not fail brought data) ends with the export files written and
\* exit status zero.
C24_PartialFailuresExitZero ==
    (exitCode # <<>> /\ pc = "returned" /\ hist.hadSession
        /\ hist.failed # {} /\ hist.failed # TaskNames
        /\ \E name \in TaskNames \ hist.failed : Populated(userData[name])) =>
      exitCode = <<0>> /\ hist.export.done /\ CompleteFile \in DOMAIN files

\* C29: a token refresh failure during the per-biomarker detail phase propagates out
\* of fetchAllData: the aggregate is not returned, no export file is written and the
\* export command exits with status 1.
C29_DetailRefreshFailureAbortsExport ==
    (hist.last.task = "individualBiomarkers" /\ hist.last.refreshFailed) =>
      /\ pc = "raised"
      /\ ~hist.export.done /\ files = EmptyDir
      /\ exitCode # <<>> => exitCode = <<1>>

\* C29's case: the refresh failed at a detail request after a catalog phase that
\* collected data, and the command has ended.
C29_AbortedInDetailPhase ==
    /\ hist.last.task = "individualBiomarkers" /\ hist.last.refreshFailed
    /\ Truthy(userData.profile) /\ NonEmpty(userData.biomarkers)
    /\ exitCode = <<1>>

(***************************************************************************)
(* Properties of what the commands persist (checked under SpecCommands).    *)
(***************************************************************************)
\* C25: after any sequence of export and config commands the password is in no
\* persisted state: the credentials file holds at most the email, the configuration
\* file holds configuration options only, and no export file carries the password.
C25_PasswordNeverPersisted ==
    /\ DOMAIN home.credentials.json \subseteq {"email"}
    /\ \A k \in DOMAIN home.credentials.json : home.credentials.json[k] # Password
    /\ DOMAIN home.config.json \subseteq DOMAIN DEFAULT_CONFIG
    /\ "outputDir" \in DOMAIN home.config.json => home.config.json.outputDir # Password
    /\ \A f \in DOMAIN files : files[f].exportInfo.email # Password

\* C25's case: an export command was given the password, saved the credentials and
\* wrote its files.
C25_ExportedWithSavedCredentials ==
    /\ hist.cmd.name = "export" /\ hist.cmd.password = Password
    /\ home.credentials.exists /\ "email" \in DOMAIN home.credentials.json
    /\ CompleteFile \in DOMAIN files /\ files[CompleteFile].timestamp = now - 1
    /\ exitCode = <<0>>

\* C26: after config --reset, whatever had been saved before, loadConfig returns the
\* default value of every option and the saved credentials are cleared.
C26_ResetRestoresDefaults ==
    (hist.cmd.name = "config" /\ hist.cmd.reset) =>
      /\ loadConfig(home.config) = DEFAULT_CONFIG
      /\ ~home.credentials.exists

====
